---- MODULE Spec2Model ----
(***************************************************************************)
(* A model of bot.py, the grid alert bot: the bounds classifier            *)
(* (check_bounds), the recommendation composer (pair_recommendation), the  *)
(* RSI-14 engine (rsi_14, weekly_closes_from_daily, rsi_status,            *)
(* is_rsi_trigger), the notification channel (tg_send) and one run of      *)
(* main.                                                                   *)
(*                                                                         *)
(* Numbers.  Python floats are modelled by exact arithmetic:               *)
(*   - prices and bounds are integers (a price unit is chosen per pair so  *)
(*     that every threshold of the pair is a whole number of units);       *)
(*   - percentages are integers in hundredths of a percent, so that        *)
(*     x * (1 + pct/100) is the rational x * (PCT + pct) / PCT and every   *)
(*     comparison is made by cross-multiplication;                         *)
(*   - the Wilder averages of rsi_14 are fixed-point numbers N / 14^k held *)
(*     as little-endian digit sequences in base 14^6, because they outgrow *)
(*     machine integers after a few smoothing steps.                       *)
(*                                                                         *)
(* Optional values (Optional[...] in the source) are sequences of length   *)
(* at most one: None is << >> and a present value x is <<x>>.              *)
(***************************************************************************)
EXTENDS Integers, Sequences, FiniteSets, TLC

VARIABLES
    pc,                 \* position of the running operation
    closes,             \* rsi_14 / weekly_closes_from_daily: the input series
    rsi_out,            \* outcome of rsi_14(closes)
    weekly_out,         \* result of weekly_closes_from_daily(closes)
    cb_args,            \* check_bounds: the arguments of the call
    cb_result,          \* check_bounds: the returned dictionary
    rec_rsi,            \* pair_recommendation: the daily and weekly readings
    rec_lines,          \* pair_recommendation: the returned lines
    creds,              \* TELEGRAM_BOT_TOKEN / TELEGRAM_CHAT_ID as configured
    idx,                \* main: index of the pair a loop is at
    prices,             \* main: prices[s]
    bounds_by_symbol,   \* main: bounds_by_symbol[s]
    rsi_data,           \* main: rsi_data[s]
    fetch_log,          \* what each provider call of the run ended with
    tg_calls,           \* the calls of tg_send made so far, with their outcome
    exit_code,          \* main's return value (None while running)
    http                \* http_get_json: the frame of the call and what it did

vars == <<pc, closes, rsi_out, weekly_out, cb_args, cb_result, rec_rsi, rec_lines,
          creds, idx, prices, bounds_by_symbol, rsi_data, fetch_log, tg_calls,
          exit_code, http>>

(***************************************************************************)
(* Optional values and call outcomes                                       *)
(***************************************************************************)
None == << >>

Some(x) == <<x>>

IsNone(o) == o = << >>

Val(o) == o[1]

\* A call that returned v, and a call that raised an exception.
Return(v) == [raised |-> FALSE, ret |-> v]

Raise == [raised |-> TRUE, ret |-> None]

\* list[i] with Python's zero-based index.
At(list, i) == list[i + 1]

Max(a, b) == IF a >= b THEN a ELSE b

Min(a, b) == IF a <= b THEN a ELSE b

(***************************************************************************)
(* Exact non-negative numbers: little-endian digits in base BigBase.       *)
(***************************************************************************)
Period == 14

\* A digit of a Wilder average holds DigitWidth factors of Period.
DigitWidth == 6

RECURSIVE Pow(_, _)
Pow(b, e) == IF e = 0 THEN 1 ELSE b * Pow(b, e - 1)

BigBase == Pow(Period, DigitWidth)

RECURSIVE BigFromNat(_)
BigFromNat(n) ==
    IF n = 0 THEN << >> ELSE <<n % BigBase>> \o BigFromNat(n \div BigBase)

BigIsZero(a) == \A i \in 1..Len(a) : a[i] = 0

BigDigit(a, i) == IF i <= Len(a) THEN a[i] ELSE 0

\* a * m + v * BigBase^(p-1), digit by digit from digit i with carry c.
RECURSIVE BigMulAddFrom(_, _, _, _, _, _)
BigMulAddFrom(a, m, p, v, i, c) ==
    IF i > Len(a) /\ i > p /\ c = 0 THEN << >>
    ELSE LET d == BigDigit(a, i) * m + c + (IF i = p THEN v ELSE 0)
         IN  <<d % BigBase>> \o BigMulAddFrom(a, m, p, v, i + 1, d \div BigBase)

BigMulAdd(a, m, p, v) == BigMulAddFrom(a, m, p, v, 1, 0)

BigMul(a, m) == BigMulAddFrom(a, m, 0, 0, 1, 0)

RECURSIVE BigAddFrom(_, _, _, _)
BigAddFrom(a, b, i, c) ==
    IF i > Len(a) /\ i > Len(b) /\ c = 0 THEN << >>
    ELSE LET d == BigDigit(a, i) + BigDigit(b, i) + c
         IN  <<d % BigBase>> \o BigAddFrom(a, b, i + 1, d \div BigBase)

BigAdd(a, b) == BigAddFrom(a, b, 1, 0)

\* a < b, comparing from the most significant digit i downward.
RECURSIVE BigLessFrom(_, _, _)
BigLessFrom(a, b, i) ==
    IF i = 0 THEN FALSE
    ELSE IF BigDigit(a, i) # BigDigit(b, i) THEN BigDigit(a, i) < BigDigit(b, i)
    ELSE BigLessFrom(a, b, i - 1)

BigLess(a, b) == BigLessFrom(a, b, Max(Len(a), Len(b)))

BigEq(a, b) == ~BigLess(a, b) /\ ~BigLess(b, a)

\* A non-negative rational num/den (den > 0): the value of a float.
Rat(n, d) == [num |-> n, den |-> d]

RatOfInt(n) == Rat(BigFromNat(n), BigFromNat(1))

\* x > n and x < n for a rational x and a natural n.
RatGreater(x, n) == BigLess(BigMul(x.den, n), x.num)

RatLess(x, n) == BigLess(x.num, BigMul(x.den, n))

RatEq(x, n) == BigEq(x.num, BigMul(x.den, n))

(***************************************************************************)
(* 7) RSI                                                                  *)
(***************************************************************************)
RSI_OVERBOUGHT == 72

RSI_OVERSOLD == 28

\* closes[i] - closes[i - 1]
Diff(list, i) == At(list, i) - At(list, i - 1)

Gain(diff) == Max(diff, 0)

\* losses.append(max(diff, 0.0)): the sign of the loss forgotten.
Loss_unsigned(diff) == Max(diff, 0)

Loss(diff) == Max(0 - diff, 0)

RECURSIVE SumFrom(_, _)
SumFrom(s, i) == IF i > Len(s) THEN 0 ELSE s[i] + SumFrom(s, i + 1)

Sum(s) == SumFrom(s, 1)

\* The guard of rsi_14: closes is None or len(closes) < period + 1.
TooShort(cl) == IsNone(cl) \/ Len(Val(cl)) < Period + 1

\* gain / period for an average N / Period^k, as the digit and the value that
\* BigMulAdd adds to (period - 1) * N to give the numerator over Period^(k+1).
StepDigit(k) == (k \div DigitWidth) + 1

StepValue(x, k) == x * Pow(Period, k % DigitWidth)

\* The smoothing loop, for i in range(period + 1, len(closes)): the averages are
\* G / Period^k and L / Period^k, and
\*   avg = (avg * (period - 1) + x) / period
\* is ((period - 1) * N + x * Period^k) / Period^(k+1).
RECURSIVE WilderFrom(_, _, _, _, _)
WilderFrom(list, i, G, L, k) ==
    \* (the second disjunct is never true: it has G and L evaluated at every step)
    IF i >= Len(list) \/ Len(G) + Len(L) < 0 THEN <<G, L>>
    ELSE LET diff == Diff(list, i)
         IN  WilderFrom(list, i + 1,
                        BigMulAdd(G, Period - 1, StepDigit(k), StepValue(Gain(diff), k)),
                        BigMulAdd(L, Period - 1, StepDigit(k), StepValue(Loss(diff), k)),
                        k + 1)

\* avg_loss is tested against avg_gain's zero instead of its own: with no loss
\* at all, rs = avg_gain / avg_loss raises ZeroDivisionError.
RsiOfAverages_gain_guard(G, L) ==
    IF BigIsZero(G) THEN Return(Some(RatOfInt(100)))
    ELSE IF BigIsZero(L) THEN Raise
    ELSE Return(Some(Rat(BigMul(G, 100), BigAdd(G, L))))

\* The last lines of rsi_14, for avg_gain = G / d and avg_loss = L / d:
\* 100.0 when avg_loss == 0, else 100 - 100 / (1 + G / L) = 100 * G / (G + L).
RsiOfAverages(G, L) ==
    IF BigIsZero(L) THEN Return(Some(RatOfInt(100)))
    ELSE Return(Some(Rat(BigMul(G, 100), BigAdd(G, L))))

\* rsi_14 past its guard: the seed averages over the first period deltas, the
\* Wilder smoothing over the rest, and the final ratio.
RsiCompute(list) ==
    LET gains  == [i \in 1..Period |-> Gain(Diff(list, i))]
        losses == [i \in 1..Period |-> Loss(Diff(list, i))]
        avgs   == WilderFrom(list, Period + 1, BigFromNat(Sum(gains)),
                             BigFromNat(Sum(losses)), 1)
    IN  RsiOfAverages(avgs[1], avgs[2])

\* The guard tests period instead of period + 1: a series of exactly period
\* points passes it and closes[period] raises IndexError.
rsi_14_short_guard(cl) ==
    IF IsNone(cl) \/ Len(Val(cl)) < Period THEN Return(None)
    ELSE IF Len(Val(cl)) < Period + 1 THEN Raise
    ELSE RsiCompute(Val(cl))

rsi_14(cl) ==
    IF TooShort(cl) THEN Return(None) ELSE RsiCompute(Val(cl))

Reverse(s) == [j \in 1..Len(s) |-> s[Len(s) + 1 - j]]

\* for i in range(len(daily_closes) - 1, -1, -7): weekly.append(daily_closes[i])
RECURSIVE WeeklyWalk(_, _)
WeeklyWalk(list, i) ==
    IF i < 0 THEN << >> ELSE <<At(list, i)>> \o WeeklyWalk(list, i - 7)

WeeklyMinDays == 30

\* weekly.reverse() left out: the newest close comes first.
weekly_closes_from_daily_unreversed(daily) ==
    IF IsNone(daily) \/ Len(Val(daily)) = 0 \/ Len(Val(daily)) < WeeklyMinDays
    THEN None
    ELSE Some(WeeklyWalk(Val(daily), Len(Val(daily)) - 1))

weekly_closes_from_daily(daily) ==
    IF IsNone(daily) \/ Len(Val(daily)) = 0 \/ Len(Val(daily)) < WeeklyMinDays
    THEN None
    ELSE Some(Reverse(WeeklyWalk(Val(daily), Len(Val(daily)) - 1)))

rsi_status(v) ==
    IF IsNone(v) THEN "RSI: n/a"
    ELSE IF RatGreater(Val(v), RSI_OVERBOUGHT) THEN "RSI: OVERBOUGHT"
    ELSE IF RatLess(Val(v), RSI_OVERSOLD) THEN "RSI: OVERSOLD"
    ELSE "RSI: neutral"

is_rsi_trigger(v) ==
    IF IsNone(v) THEN FALSE
    ELSE RatGreater(Val(v), RSI_OVERBOUGHT) \/ RatLess(Val(v), RSI_OVERSOLD)

(***************************************************************************)
(* Input series: piecewise linear closes, slope s1 over the first k steps  *)
(* and slope s2 after them.                                                *)
(***************************************************************************)
MaxDays == 40

MaxSlope == 1

BasePrice == 1000

Breaks == {0, 7, 20}

Series(n, k, s1, s2) ==
    [i \in 1..n |-> BasePrice + s1 * Min(i - 1, k) + s2 * Max(i - 1 - k, 0)]

SeriesFamily ==
    {Series(n, k, s1, s2) : n \in 0..MaxDays, k \in Breaks,
                            s1 \in (0 - MaxSlope)..MaxSlope,
                            s2 \in (0 - MaxSlope)..MaxSlope}

(***************************************************************************)
(* SpecRsi: rsi_14 and weekly_closes_from_daily called on one input series *)
(***************************************************************************)
InitRsi ==
    /\ pc = "rsi_14"
    /\ closes \in {None} \cup {Some(s) : s \in SeriesFamily}
    /\ rsi_out = Return(None)
    /\ weekly_out = None
    /\ cb_args = None /\ cb_result = None /\ rec_rsi = None /\ rec_lines = None
    /\ creds = None /\ idx = 0 /\ prices = None /\ bounds_by_symbol = None
    /\ rsi_data = None /\ fetch_log = None /\ tg_calls = None /\ exit_code = None
    /\ http = None

CallRsi14 ==
    /\ pc = "rsi_14"
    /\ rsi_out' = rsi_14(closes)
    /\ pc' = "weekly_closes_from_daily"
    /\ UNCHANGED <<http, closes, weekly_out, cb_args, cb_result, rec_rsi, rec_lines, creds,
                   idx, prices, bounds_by_symbol, rsi_data, fetch_log, tg_calls,
                   exit_code>>

CallWeeklyCloses ==
    /\ pc = "weekly_closes_from_daily"
    /\ weekly_out' = weekly_closes_from_daily(closes)
    /\ pc' = "returned"
    /\ UNCHANGED <<http, closes, rsi_out, cb_args, cb_result, rec_rsi, rec_lines, creds,
                   idx, prices, bounds_by_symbol, rsi_data, fetch_log, tg_calls,
                   exit_code>>

NextRsi == CallRsi14 \/ CallWeeklyCloses

SpecRsi == InitRsi /\ [][NextRsi]_vars

\* The input series has n points (None has none).
HasLen(n) == ~IsNone(closes) /\ Len(Val(closes)) = n

LenAtLeast(n) == ~IsNone(closes) /\ Len(Val(closes)) >= n

NonIncreasing == \A i \in 2..Len(Val(closes)) : Val(closes)[i] <= Val(closes)[i - 1]

NonDecreasing == \A i \in 2..Len(Val(closes)) : Val(closes)[i] >= Val(closes)[i - 1]

SomeDrop == \E i \in 2..Len(Val(closes)) : Val(closes)[i] < Val(closes)[i - 1]

StrictlyIncreasing == \A i \in 2..Len(Val(closes)) : Val(closes)[i] > Val(closes)[i - 1]

StrictlyDecreasing == \A i \in 2..Len(Val(closes)) : Val(closes)[i] < Val(closes)[i - 1]

Rsi14Returned == pc \in {"weekly_closes_from_daily", "returned"}

\* rsi_14 returned the float n.
Rsi14Is(n) ==
    /\ ~rsi_out.raised
    /\ ~IsNone(rsi_out.ret)
    /\ RatEq(Val(rsi_out.ret), n)

\* C7: for a series of fewer than 15 closes (the empty one and None included)
\* rsi_14 returns None without raising, and that reading is no trigger and is
\* rendered as n/a.
C7_ShortSeriesUnavailable ==
    (Rsi14Returned /\ ~LenAtLeast(Period + 1)) =>
        /\ rsi_out = Return(None)
        /\ ~is_rsi_trigger(rsi_out.ret)
        /\ rsi_status(rsi_out.ret) = "RSI: n/a"

C7_Witness == pc = "returned" /\ HasLen(Period) /\ IsNone(rsi_out.ret)

\* C8 as stated: for every monotonically decreasing (non-increasing) series of
\* at least 15 closes rsi_14 returns exactly 0.0.
C8_DecreasingIsZero ==
    (Rsi14Returned /\ LenAtLeast(Period + 1) /\ NonIncreasing) => Rsi14Is(0)

\* C8 amended: for every non-increasing series of at least 15 closes with at
\* least one fall (every strictly decreasing one is such) rsi_14 returns
\* exactly 0.0; for a series of at least 15 equal closes it returns 100.0.
C8_FallingIsZero ==
    (Rsi14Returned /\ LenAtLeast(Period + 1) /\ NonIncreasing) =>
        IF SomeDrop THEN Rsi14Is(0) ELSE Rsi14Is(100)

C8_Witness ==
    /\ pc = "returned" /\ LenAtLeast(Period + 3) /\ StrictlyDecreasing /\ Rsi14Is(0)

\* C9: for every monotonically increasing (non-decreasing) series of at least
\* 15 closes rsi_14 returns exactly 100.0.
C9_IncreasingIsHundred ==
    (Rsi14Returned /\ LenAtLeast(Period + 1) /\ NonDecreasing) => Rsi14Is(100)

C9_Witness ==
    /\ pc = "returned" /\ LenAtLeast(Period + 3) /\ StrictlyIncreasing /\ Rsi14Is(100)

\* C10: weekly_closes_from_daily returns None for fewer than 30 daily closes;
\* for n >= 30 it returns ceil(n / 7) closes, those at the indices n-1, n-8,
\* n-15, ... oldest first, so that the last one is the last daily close.
C10_WeeklyCloses ==
    pc = "returned" =>
        IF ~LenAtLeast(WeeklyMinDays) THEN IsNone(weekly_out)
        ELSE LET daily == Val(closes)
                 n     == Len(daily)
             IN  /\ ~IsNone(weekly_out)
                 /\ Len(Val(weekly_out)) = (n + 6) \div 7
                 /\ \A j \in 1..Len(Val(weekly_out)) :
                        Val(weekly_out)[j]
                            = At(daily, n - 1 - 7 * (Len(Val(weekly_out)) - j))
                 /\ Val(weekly_out)[Len(Val(weekly_out))] = At(daily, n - 1)

C10_Witness ==
    /\ pc = "returned" /\ HasLen(WeeklyMinDays + 1) /\ StrictlyIncreasing
    /\ ~IsNone(weekly_out) /\ Len(Val(weekly_out)) = 5

C10_WitnessShort == pc = "returned" /\ HasLen(WeeklyMinDays - 1) /\ IsNone(weekly_out)

(***************************************************************************)
(* 8) RANGE CHECKS                                                         *)
(***************************************************************************)
\* 100 percent, in hundredths of a percent: x * (1.0 + pct / 100.0) is
\* x * (PCT + pct) / PCT.
PCT == 10000

\* price < lower * (1.0 - outside_tol_pct / 100.0)
BelowLowerOutsideLevel(price, lower, outside_tol_pct) ==
    price * PCT < lower * (PCT - outside_tol_pct)

\* price > upper * (1.0 + outside_tol_pct / 100.0)
AboveUpperOutsideLevel(price, upper, outside_tol_pct) ==
    price * PCT > upper * (PCT + outside_tol_pct)

\* price < near_lower_level: the boundary of the near band left out.
AtOrBelowNearLowerLevel_strict(price, lower, near_pct) ==
    price * PCT < lower * (PCT + near_pct)

\* price <= lower * (1.0 + near_pct / 100.0)
AtOrBelowNearLowerLevel(price, lower, near_pct) ==
    price * PCT <= lower * (PCT + near_pct)

\* price >= upper * (1.0 - near_pct / 100.0)
AtOrAboveNearUpperLevel(price, upper, near_pct) ==
    price * PCT >= upper * (PCT - near_pct)

\* (dist_abs / bound) * 100.0 if bound else 0.0, in hundredths of a percent.
DistPct(dist_abs, bound) ==
    IF bound # 0 THEN [num |-> dist_abs * PCT, den |-> bound]
    ELSE [num |-> 0, den |-> 1]

\* The dictionary check_bounds starts from.
BoundsDefault(symbol, outside_tol_pct) ==
    [symbol           |-> symbol,
     state            |-> "inside",
     triggers         |-> << >>,
     outside_dist_pct |-> None,
     outside_dist_abs |-> None,
     outside_side     |-> None,
     within_tolerance |-> FALSE,
     outside_tol_pct  |-> outside_tol_pct]

\* A result outside the range or inside the tolerance band.
BoundsBreach(symbol, outside_tol_pct, state, side, dist_abs, bound, tolerated, text) ==
    [BoundsDefault(symbol, outside_tol_pct) EXCEPT
        !.state            = state,
        !.outside_dist_abs = Some(dist_abs),
        !.outside_dist_pct = Some(DistPct(dist_abs, bound)),
        !.outside_side     = Some(side),
        !.within_tolerance = tolerated,
        !.triggers         = <<<<symbol, text>>>>]

check_bounds(symbol, price, lower, upper, near_pct, outside_tol_pct) ==
    IF BelowLowerOutsideLevel(price, lower, outside_tol_pct)
    THEN BoundsBreach(symbol, outside_tol_pct, "outside_lower", "lower",
                      lower - price, lower, FALSE, "OUTSIDE below LOWER")
    ELSE IF AboveUpperOutsideLevel(price, upper, outside_tol_pct)
    THEN BoundsBreach(symbol, outside_tol_pct, "outside_upper", "upper",
                      price - upper, upper, FALSE, "OUTSIDE above UPPER")
    ELSE IF price < lower
    THEN BoundsBreach(symbol, outside_tol_pct, "near_lower", "lower",
                      lower - price, lower, TRUE, "NEAR LOWER (within tolerance)")
    ELSE IF price > upper
    THEN BoundsBreach(symbol, outside_tol_pct, "near_upper", "upper",
                      price - upper, upper, TRUE, "NEAR UPPER (within tolerance)")
    ELSE IF AtOrBelowNearLowerLevel(price, lower, near_pct)
    THEN [BoundsDefault(symbol, outside_tol_pct) EXCEPT
            !.state = "near_lower", !.triggers = <<<<symbol, "NEAR LOWER">>>>]
    ELSE IF AtOrAboveNearUpperLevel(price, upper, near_pct)
    THEN [BoundsDefault(symbol, outside_tol_pct) EXCEPT
            !.state = "near_upper", !.triggers = <<<<symbol, "NEAR UPPER">>>>]
    ELSE BoundsDefault(symbol, outside_tol_pct)

(***************************************************************************)
(* 9) RECOMMENDATIONS                                                      *)
(***************************************************************************)
\* 0.75 percent, in hundredths of a percent.
SOFT_OUTSIDE_PCT == 75

\* outside_dist_pct is not None and outside_dist_pct < SOFT_OUTSIDE_PCT
SoftOutside(outside_dist_pct) ==
    /\ ~IsNone(outside_dist_pct)
    /\ Val(outside_dist_pct).num < SOFT_OUTSIDE_PCT * Val(outside_dist_pct).den

\* The lines chosen by the state of the bounds result.
BoundsAdvice(symbol, bounds_result) ==
    IF bounds_result.state \in {"outside_lower", "outside_upper"}
    THEN IF SoftOutside(bounds_result.outside_dist_pct)
         THEN << <<symbol, "MONITOR (small breach)">>,
                 <<symbol, "PAUSE + shift range if it grows or holds">> >>
         ELSE << <<symbol, "PAUSE grid + shift range toward current price">>,
                 <<symbol, "move LOWER/UPPER to the price and restart">> >>
    ELSE IF bounds_result.state \in {"near_lower", "near_upper"}
    THEN IF bounds_result.within_tolerance
         THEN << <<symbol, "MONITOR (within tolerance)">>,
                 <<symbol, "keep the grid running and watch">> >>
         ELSE << <<symbol, "Consider PAUSE or WIDEN range">> >>
    ELSE << <<symbol, "Leave as-is">> >>

\* `elif is_rsi_trigger(weekly_rsi)`: the weekly hint only without a daily one.
RsiHints_elif(symbol, daily_rsi, weekly_rsi) ==
    IF is_rsi_trigger(daily_rsi) THEN << <<symbol, "Daily RSI hint">> >>
    ELSE IF is_rsi_trigger(weekly_rsi) THEN << <<symbol, "Weekly RSI hint">> >>
    ELSE << >>

RsiHints(symbol, daily_rsi, weekly_rsi) ==
    (IF is_rsi_trigger(daily_rsi) THEN << <<symbol, "Daily RSI hint">> >> ELSE << >>)
    \o (IF is_rsi_trigger(weekly_rsi) THEN << <<symbol, "Weekly RSI hint">> >>
        ELSE << >>)

pair_recommendation(symbol, bounds_result, daily_rsi, weekly_rsi) ==
    BoundsAdvice(symbol, bounds_result) \o RsiHints(symbol, daily_rsi, weekly_rsi)

(***************************************************************************)
(* SpecBounds: check_bounds called on one price and grid, and              *)
(* pair_recommendation on its result and a pair of RSI readings.           *)
(***************************************************************************)
MaxDelta == 12

\* The grids: <<lower, upper>> with 0 < lower < upper.
Grids == {<<1000, 2000>>, <<1000, 1004>>}

\* near_pct and outside_tol_pct, in hundredths of a percent.
NearPcts == {0, 50, 100, 6000}

TolPcts == {0, 20, 100}

\* Prices around both bounds of the grid, and the middle of the range.
PricesOf(g) ==
    {g[1] + d : d \in (0 - MaxDelta)..MaxDelta}
        \cup {g[2] + d : d \in (0 - MaxDelta)..MaxDelta}
        \cup {(g[1] + g[2]) \div 2}

\* RSI readings, in tenths: around both thresholds, and None.
RsiTenths == {279, 280, 500, 720, 721}

RsiReadings == {None} \cup {Some(Rat(BigFromNat(t), BigFromNat(10))) : t \in RsiTenths}

CallArgs ==
    UNION {[symbol : {"BTC"}, price : PricesOf(g), lower : {g[1]}, upper : {g[2]},
            near_pct : NearPcts, outside_tol_pct : TolPcts] : g \in Grids}

InitBounds ==
    /\ pc = "check_bounds"
    /\ cb_args \in CallArgs
    /\ rec_rsi \in [daily : RsiReadings, weekly : RsiReadings]
    /\ cb_result = None
    /\ rec_lines = None
    /\ closes = None /\ rsi_out = None /\ weekly_out = None
    /\ creds = None /\ idx = 0 /\ prices = None /\ bounds_by_symbol = None
    /\ rsi_data = None /\ fetch_log = None /\ tg_calls = None /\ exit_code = None
    /\ http = None

CallCheckBounds ==
    /\ pc = "check_bounds"
    /\ cb_result' = Some(check_bounds(cb_args.symbol, cb_args.price, cb_args.lower,
                                      cb_args.upper, cb_args.near_pct,
                                      cb_args.outside_tol_pct))
    /\ pc' = "pair_recommendation"
    /\ UNCHANGED <<http, closes, rsi_out, weekly_out, cb_args, rec_rsi, rec_lines, creds,
                   idx, prices, bounds_by_symbol, rsi_data, fetch_log, tg_calls,
                   exit_code>>

CallPairRecommendation ==
    /\ pc = "pair_recommendation"
    /\ rec_lines' = Some(pair_recommendation(cb_args.symbol, Val(cb_result),
                                             rec_rsi.daily, rec_rsi.weekly))
    /\ pc' = "recommended"
    /\ UNCHANGED <<http, closes, rsi_out, weekly_out, cb_args, cb_result, rec_rsi, creds,
                   idx, prices, bounds_by_symbol, rsi_data, fetch_log, tg_calls,
                   exit_code>>

NextBounds == CallCheckBounds \/ CallPairRecommendation

SpecBounds == InitBounds /\ [][NextBounds]_vars

BoundsReturned == pc \in {"pair_recommendation", "recommended"}

\* The seven rules of the decision order, on the arguments of the call, with
\* the thresholds as the fractions price / bound against 1 -+ pct / 100.
RuleHolds(i) ==
    LET p    == cb_args.price
        lo   == cb_args.lower
        up   == cb_args.upper
        near == cb_args.near_pct
        tol  == cb_args.outside_tol_pct
    IN  CASE i = 1 -> PCT * p < (PCT - tol) * lo
          [] i = 2 -> PCT * p > (PCT + tol) * up
          [] i = 3 -> p < lo
          [] i = 4 -> p > up
          [] i = 5 -> PCT * p <= (PCT + near) * lo
          [] i = 6 -> PCT * p >= (PCT - near) * up
          [] OTHER -> TRUE

FirstRule == CHOOSE i \in 1..7 : RuleHolds(i) /\ \A j \in 1..(i - 1) : ~RuleHolds(j)

RuleState ==
    <<"outside_lower", "outside_upper", "near_lower", "near_upper",
      "near_lower", "near_upper", "inside">>

\* C1: check_bounds returns the state of the first rule that matches, in the
\* order 1..7, with within_tolerance set by rules 3 and 4 alone; with
\* outside_tol_pct = 0 no result has within_tolerance.
C1_FirstMatchWins ==
    BoundsReturned =>
        /\ Val(cb_result).state = RuleState[FirstRule]
        /\ Val(cb_result).within_tolerance = (FirstRule \in {3, 4})
        /\ (cb_args.outside_tol_pct = 0 => ~Val(cb_result).within_tolerance)

\* Rules 5 and 6 both match and rule 5 wins.
C1_Witness ==
    /\ BoundsReturned
    /\ FirstRule = 5 /\ RuleHolds(6)
    /\ Val(cb_result).state = "near_lower"

\* C2 as stated: price = lower with near_pct = 0 and outside_tol_pct = 0 is
\* classified inside.
C2_BoundaryInside ==
    (BoundsReturned /\ cb_args.price = cb_args.lower
        /\ cb_args.near_pct = 0 /\ cb_args.outside_tol_pct = 0) =>
        Val(cb_result).state = "inside"

\* C2 amended: price = lower with near_pct = 0 and outside_tol_pct = 0 is
\* classified near_lower, not within tolerance, with the NEAR LOWER trigger.
C2_BoundaryNearLower ==
    (BoundsReturned /\ cb_args.price = cb_args.lower
        /\ cb_args.near_pct = 0 /\ cb_args.outside_tol_pct = 0) =>
        /\ Val(cb_result).state = "near_lower"
        /\ ~Val(cb_result).within_tolerance
        /\ Val(cb_result).triggers = <<<<cb_args.symbol, "NEAR LOWER">>>>

C2_Witness ==
    /\ BoundsReturned /\ cb_args.price = cb_args.lower
    /\ cb_args.near_pct = 0 /\ cb_args.outside_tol_pct = 0
    /\ Val(cb_result).state = "near_lower"

\* The reading is overbought or oversold.
Extreme(v) ==
    /\ ~IsNone(v)
    /\ \/ BigLess(BigMul(Val(v).den, RSI_OVERBOUGHT), Val(v).num)
       \/ BigLess(Val(v).num, BigMul(Val(v).den, RSI_OVERSOLD))

\* The advisory block the claim gives for the result b, by its first line.
AdviceHead(b) ==
    LET soft == Val(b.outside_dist_pct).num < SOFT_OUTSIDE_PCT * Val(b.outside_dist_pct).den
    IN  CASE b.state \in {"outside_lower", "outside_upper"} /\ soft ->
                "MONITOR (small breach)"
          [] b.state \in {"outside_lower", "outside_upper"} /\ ~soft ->
                "PAUSE grid + shift range toward current price"
          [] b.state \in {"near_lower", "near_upper"} /\ ~b.within_tolerance ->
                "Consider PAUSE or WIDEN range"
          [] b.state \in {"near_lower", "near_upper"} /\ b.within_tolerance ->
                "MONITOR (within tolerance)"
          [] b.state = "inside" -> "Leave as-is"

Heads ==
    {"MONITOR (small breach)", "PAUSE grid + shift range toward current price",
     "Consider PAUSE or WIDEN range", "MONITOR (within tolerance)", "Leave as-is"}

Texts(lines) == [i \in 1..Len(lines) |-> lines[i][2]]

\* C3: pair_recommendation returns exactly one advisory block, the one of the
\* state, then the daily hint iff the daily reading is overbought or oversold,
\* then the weekly hint iff the weekly one is; the hints never replace or
\* suppress the advisory.
C3_AdviceThenHints ==
    pc = "recommended" =>
        LET t      == Texts(Val(rec_lines))
            hints  == (IF Extreme(rec_rsi.daily) THEN <<"Daily RSI hint">> ELSE << >>)
                      \o (IF Extreme(rec_rsi.weekly) THEN <<"Weekly RSI hint">>
                          ELSE << >>)
            nblock == Len(t) - Len(hints)
        IN  /\ nblock >= 1
            /\ t[1] = AdviceHead(Val(cb_result))
            /\ Cardinality({i \in 1..Len(t) : t[i] \in Heads}) = 1
            /\ \A i \in 1..nblock : t[i] \notin {"Daily RSI hint", "Weekly RSI hint"}
            /\ SubSeq(t, nblock + 1, Len(t)) = hints
            /\ \A i \in 1..Len(t) : Val(rec_lines)[i][1] = cb_args.symbol

\* A small breach with both readings extreme: MONITOR and both hints.
C3_Witness ==
    /\ pc = "recommended"
    /\ Val(cb_result).state = "outside_upper"
    /\ Texts(Val(rec_lines))[1] = "MONITOR (small breach)"
    /\ Extreme(rec_rsi.daily) /\ Extreme(rec_rsi.weekly)
    /\ Len(Val(rec_lines)) = 4

(***************************************************************************)
(* 2), 3) Strategy settings and pairs.  BTC prices are in USD and SOL      *)
(* prices in USD cents (check_bounds only compares price, lower and upper  *)
(* scaled by the same factor); percentages are in hundredths of a percent. *)
(***************************************************************************)
symbols == <<"BTC", "SOL">>

SymbolSet == {"BTC", "SOL"}

PAIR_CONFIG ==
    [BTC |-> [lower |-> 65800, upper |-> 69600, near_pct |-> 70,
              outside_tol_pct |-> 0],
     SOL |-> [lower |-> 8000, upper |-> 8800, near_pct |-> 120,
              outside_tol_pct |-> 20]]

(***************************************************************************)
(* 4) TELEGRAM SEND                                                        *)
(***************************************************************************)
\* What TELEGRAM_BOT_TOKEN and TELEGRAM_CHAT_ID hold: nothing, the PASTE_YOUR_
\* placeholders the file ships with, or real values.
Credentials == {"empty", "placeholder", "configured"}

\* What requests.post and raise_for_status do with a message.
Deliveries == {"ok", "error"}

\* tg_send without its try/except: a delivery error leaves the function.
tg_send_uncaught(text, cr, delivery) ==
    IF cr \in {"empty", "placeholder"} THEN [raised |-> FALSE, ret |-> FALSE, posted |-> FALSE]
    ELSE IF delivery = "ok" THEN [raised |-> FALSE, ret |-> TRUE, posted |-> TRUE]
    ELSE [raised |-> TRUE, ret |-> FALSE, posted |-> TRUE]

tg_send(text, cr, delivery) ==
    IF cr \in {"empty", "placeholder"} THEN [raised |-> FALSE, ret |-> FALSE, posted |-> FALSE]
    ELSE IF delivery = "ok" THEN [raised |-> FALSE, ret |-> TRUE, posted |-> TRUE]
    ELSE [raised |-> FALSE, ret |-> FALSE, posted |-> TRUE]

(***************************************************************************)
(* 6) COINGECKO DATA.  A response is what http_get_json ended with: "fail" *)
(* (it raised after its retries), or the JSON document it returned.        *)
(***************************************************************************)
\* The document is taken as it comes: a missing coin_id or "usd" key reads 0.
cg_simple_price_usd_unchecked(symbol, resp) ==
    IF resp.kind = "fail" THEN Raise
    ELSE IF resp.kind = "malformed" THEN Return(0)
    ELSE Return(resp.usd)

cg_simple_price_usd(symbol, resp) ==
    IF resp.kind = "fail" THEN Raise
    ELSE IF resp.kind = "malformed" THEN Raise
    ELSE Return(resp.usd)

\* The provider's samples are taken one per UTC day, so that the last price of
\* a day is its sample: resp.prices is the list of the daily closes.
cg_daily_closes_usd(symbol, resp) ==
    IF resp.kind = "fail" THEN Raise
    ELSE IF resp.kind = "no_prices" THEN Return(<< >>)
    ELSE IF resp.kind = "not_a_list" THEN Raise
    ELSE Return(resp.prices)

(***************************************************************************)
(* 11) MAIN                                                                *)
(***************************************************************************)
\* The prices a run may see, per pair: beyond the soft threshold below the
\* range, a small breach, the bound itself, inside, and above the range (for
\* SOL inside and outside its tolerance band).
SpotPrices ==
    [BTC |-> {65000, 65500, 67000, 69700},
     SOL |-> {7990, 8000, 8400, 8820}]

PriceResponses(s) ==
    {[kind |-> "fail", usd |-> 0], [kind |-> "malformed", usd |-> 0]}
        \cup {[kind |-> "ok", usd |-> p] : p \in SpotPrices[s]}

\* The longest history a run may see: the shortest with 15 weekly closes.
HistoryDays == 99

ZigZag(n) == [i \in 1..n |-> BasePrice + ((i - 1) % 2)]

\* Too short for any reading; long enough for the daily one only; falling;
\* rising with a fall over the last period days (the daily reading is
\* neutral, the weekly one overbought); alternating (both neutral).
Histories ==
    {Series(Period, 0, 0, 1), Series(Period + 1, 0, 0, 1),
     Series(HistoryDays, 0, 0, 0 - 1),
     Series(HistoryDays, HistoryDays - 1 - Period, 1, 0 - 1),
     ZigZag(HistoryDays)}

HistoryResponses ==
    {[kind |-> k, prices |-> << >>] : k \in {"fail", "no_prices", "not_a_list"}}
        \cup {[kind |-> "ok", prices |-> h] : h \in Histories}

\* Lines 426-439: the readings of one pair, with the try/except around them.
RsiOfPair(s, resp) ==
    LET fetched == cg_daily_closes_usd(s, resp)
        daily   == IF fetched.raised THEN Raise ELSE rsi_14(Some(fetched.ret))
        wcloses == weekly_closes_from_daily(Some(fetched.ret))
        weekly  == IF daily.raised THEN Raise
                   ELSE IF ~IsNone(wcloses) /\ Len(Val(wcloses)) > 0
                   THEN rsi_14(wcloses)
                   ELSE Return(None)
    IN  [daily  |-> IF daily.raised THEN None ELSE daily.ret,
         weekly |-> IF weekly.raised THEN None ELSE weekly.ret]

\* RsiOfPair over the responses a run may see, computed once.
RsiTable == [s \in SymbolSet, resp \in HistoryResponses |-> RsiOfPair(s, resp)]

any_price_trigger(bounds) == \E s \in SymbolSet : Len(bounds[s].triggers) > 0

any_rsi_trigger(rsi) ==
    \E s \in SymbolSet : is_rsi_trigger(rsi[s].daily) \/ is_rsi_trigger(rsi[s].weekly)

\* The alert condition without the RSI triggers.
ShouldAlert_price_only(bounds, rsi) == any_price_trigger(bounds)

\* if any_price_trigger or any_rsi_trigger
ShouldAlert(bounds, rsi) == any_price_trigger(bounds) \/ any_rsi_trigger(rsi)

\* The text of the alert, by pair: price, triggers, state, RSI lines and the
\* recommendation (the layout and the number formats are left out).
AlertText(pr, bounds, rsi) ==
    [s \in SymbolSet |->
        [price          |-> Val(pr[s]),
         triggers       |-> bounds[s].triggers,
         state          |-> bounds[s].state,
         daily          |-> rsi_status(rsi[s].daily),
         weekly         |-> rsi_status(rsi[s].weekly),
         recommendation |-> pair_recommendation(s, bounds[s], rsi[s].daily,
                                                rsi[s].weekly)]]

Init ==
    /\ pc = "prices"
    /\ idx = 1
    /\ creds \in Credentials
    /\ prices = [s \in SymbolSet |-> None]
    /\ bounds_by_symbol = None
    /\ rsi_data = [s \in SymbolSet |-> [daily |-> None, weekly |-> None]]
    /\ fetch_log = << >>
    /\ tg_calls = << >>
    /\ exit_code = None
    /\ http = None
    /\ closes = None /\ rsi_out = None /\ weekly_out = None
    /\ cb_args = None /\ cb_result = None /\ rec_rsi = None /\ rec_lines = None

\* Lines 401-408: one turn of the price loop; an exception ends the run with 1.
FetchPrice ==
    /\ pc = "prices"
    /\ \E resp \in PriceResponses(symbols[idx]) :
        LET s == symbols[idx]
            r == cg_simple_price_usd(s, resp)
        IN  /\ fetch_log' = Append(fetch_log, <<"price", s, resp.kind>>)
            /\ IF r.raised
               THEN /\ exit_code' = Some(1)
                    /\ pc' = "done"
                    /\ UNCHANGED <<prices, idx>>
               ELSE /\ prices' = [prices EXCEPT ![s] = Some(r.ret)]
                    /\ exit_code' = exit_code
                    /\ IF idx < Len(symbols)
                       THEN idx' = idx + 1 /\ pc' = pc
                       ELSE idx' = 1 /\ pc' = "bounds"
    /\ UNCHANGED <<http, closes, rsi_out, weekly_out, cb_args, cb_result, rec_rsi,
                   rec_lines, creds, bounds_by_symbol, rsi_data, tg_calls>>

\* Lines 410-421: the bounds state of every pair.
CheckBounds ==
    /\ pc = "bounds"
    /\ bounds_by_symbol' =
          [s \in SymbolSet |->
              check_bounds(s, Val(prices[s]), PAIR_CONFIG[s].lower,
                           PAIR_CONFIG[s].upper, PAIR_CONFIG[s].near_pct,
                           PAIR_CONFIG[s].outside_tol_pct)]
    /\ pc' = "rsi"
    /\ UNCHANGED <<http, closes, rsi_out, weekly_out, cb_args, cb_result, rec_rsi,
                   rec_lines, creds, idx, prices, rsi_data, fetch_log, tg_calls,
                   exit_code>>

\* Lines 423-439: one turn of the RSI loop.
FetchHistory ==
    /\ pc = "rsi"
    /\ \E resp \in HistoryResponses :
        LET s == symbols[idx]
        IN  /\ fetch_log' = Append(fetch_log, <<"history", s, resp.kind>>)
            /\ rsi_data' = [rsi_data EXCEPT ![s] = RsiTable[s, resp]]
    /\ IF idx < Len(symbols)
       THEN idx' = idx + 1 /\ pc' = pc
       ELSE idx' = 1 /\ pc' = "decide"
    /\ UNCHANGED <<http, closes, rsi_out, weekly_out, cb_args, cb_result, rec_rsi,
                   rec_lines, creds, prices, bounds_by_symbol, tg_calls, exit_code>>

\* Lines 441-528: the alert is built and handed to tg_send; main has no handler
\* around the call, so an exception leaving tg_send ends the process with 1.
SendAlert ==
    /\ pc = "decide"
    /\ ShouldAlert(bounds_by_symbol, rsi_data)
    /\ \E delivery \in Deliveries :
        LET text == AlertText(prices, bounds_by_symbol, rsi_data)
            sent == tg_send(text, creds, delivery)
        IN  /\ tg_calls' = Append(tg_calls, [text |-> text, delivery |-> delivery,
                                             sent |-> sent])
            /\ exit_code' = IF sent.raised THEN Some(1) ELSE Some(0)
    /\ pc' = "done"
    /\ UNCHANGED <<http, closes, rsi_out, weekly_out, cb_args, cb_result, rec_rsi,
                   rec_lines, creds, idx, prices, bounds_by_symbol, rsi_data,
                   fetch_log>>

\* Lines 530-540: SAFE, printed and not sent.
PrintSafe ==
    /\ pc = "decide"
    /\ ~ShouldAlert(bounds_by_symbol, rsi_data)
    /\ exit_code' = Some(0)
    /\ pc' = "done"
    /\ UNCHANGED <<http, closes, rsi_out, weekly_out, cb_args, cb_result, rec_rsi,
                   rec_lines, creds, idx, prices, bounds_by_symbol, rsi_data,
                   fetch_log, tg_calls>>

Next == FetchPrice \/ CheckBounds \/ FetchHistory \/ SendAlert \/ PrintSafe

Spec == Init /\ [][Next]_vars

Done == pc = "done"

\* A price fetch of the run failed after its retries or was malformed.
PriceFetchFailed ==
    \E i \in 1..Len(fetch_log) :
        fetch_log[i][1] = "price" /\ fetch_log[i][3] \in {"fail", "malformed"}

\* The history fetch of pair s failed after its retries or was malformed.
HistoryFetchFailed(s) ==
    \E i \in 1..Len(fetch_log) :
        /\ fetch_log[i][1] = "history" /\ fetch_log[i][2] = s
        /\ fetch_log[i][3] \in {"fail", "no_prices", "not_a_list"}

\* Some pair is not inside its range, or some reading is overbought or oversold.
SomethingToReport ==
    \E s \in SymbolSet :
        \/ bounds_by_symbol[s].state # "inside"
        \/ Extreme(rsi_data[s].daily)
        \/ Extreme(rsi_data[s].weekly)

\* C4: a run calls tg_send at most once; a run that evaluated its pairs calls it
\* exactly once when some pair is not inside or some daily or weekly reading is
\* overbought or oversold, and not at all when every pair is inside and every
\* reading is neutral or unavailable.
C4_AtMostOneAlert ==
    /\ Len(tg_calls) <= 1
    /\ ~Done => Len(tg_calls) = 0
    /\ (Done /\ ~PriceFetchFailed) =>
          (Len(tg_calls) = IF SomethingToReport THEN 1 ELSE 0)

\* Every pair inside, the daily readings neutral, one weekly reading overbought:
\* one alert.
C4_Witness ==
    /\ Done /\ ~PriceFetchFailed
    /\ \A s \in SymbolSet : bounds_by_symbol[s].state = "inside"
    /\ \A s \in SymbolSet : ~IsNone(rsi_data[s].daily) /\ ~Extreme(rsi_data[s].daily)
    /\ Extreme(rsi_data["SOL"].weekly) /\ ~Extreme(rsi_data["BTC"].weekly)
    /\ Len(tg_calls) = 1

\* Every pair inside and every reading present and neutral: no alert.
C4_WitnessSafe ==
    /\ Done /\ ~PriceFetchFailed
    /\ \A s \in SymbolSet : bounds_by_symbol[s].state = "inside"
    /\ \A s \in SymbolSet :
          /\ ~IsNone(rsi_data[s].daily) /\ ~Extreme(rsi_data[s].daily)
          /\ ~IsNone(rsi_data[s].weekly) /\ ~Extreme(rsi_data[s].weekly)
    /\ Len(tg_calls) = 0 /\ exit_code = Some(0)

C5_WitnessAbort ==
    /\ Done /\ fetch_log = <<<<"price", "BTC", "ok">>, <<"price", "SOL", "malformed">>>>
    /\ exit_code = Some(1) /\ Len(tg_calls) = 0

\* C6: whenever main calls tg_send, the call does not raise, it returns False
\* when the credentials are missing or placeholders or the delivery fails, and
\* main ends with status 0.
C6_FailedSendExitsZero ==
    \A i \in 1..Len(tg_calls) :
        /\ ~tg_calls[i].sent.raised
        /\ (creds # "configured" \/ tg_calls[i].delivery = "error") =>
                ~tg_calls[i].sent.ret
        /\ (creds # "configured") => ~tg_calls[i].sent.posted
        /\ Done /\ exit_code = Some(0)

C6_Witness ==
    /\ Done /\ creds = "configured" /\ Len(tg_calls) = 1
    /\ tg_calls[1].delivery = "error" /\ ~tg_calls[1].sent.ret
    /\ exit_code = Some(0)

C6_WitnessPlaceholder ==
    /\ Done /\ creds = "placeholder" /\ Len(tg_calls) = 1
    /\ ~tg_calls[1].sent.ret /\ exit_code = Some(0)

(***************************************************************************)
(* SpecHttp: one call of http_get_json, loop turn by loop turn.  The       *)
(* network is the environment: what each requests.get ends with is drawn   *)
(* from HttpReplies.  The frame of the call is the record http; its log    *)
(* holds, in order, every request issued and every time.sleep made.        *)
(***************************************************************************)
MaxRetries == 6

BACKOFF_CAP == 10

\* Line 108: the statuses the code turns into an HTTPError itself.
TransientStatuses == {429, 500, 502, 503, 504}

HttpStatuses == {200, 404, 429, 503}

\* What one requests.get can end with: an exception of the transport, or a
\* response with a status and a body that r.json() can or cannot decode.
HttpReplies ==
    {[kind |-> "network_error", status |-> None, body |-> ""]}
        \cup {[kind |-> "response", status |-> Some(st), body |-> "json"] :
                  st \in HttpStatuses}
        \cup {[kind |-> "response", status |-> Some(200), body |-> "not_json"]}

HttpReturn(v) == [raised |-> FALSE, ret |-> Some(v), err |-> ""]

HttpRaise(e) == [raised |-> TRUE, ret |-> None, err |-> e]

\* Line 110: Response.raise_for_status raises for every 4xx and 5xx status.
raise_for_status(st) == 400 <= st /\ st < 600

\* Lines 107-111: the body of the try.
HttpTry(reply) ==
    IF reply.kind = "network_error" THEN HttpRaise("ConnectionError")
    ELSE IF Val(reply.status) \in TransientStatuses THEN HttpRaise("HTTPError")
    ELSE IF raise_for_status(Val(reply.status)) THEN HttpRaise("HTTPError")
    ELSE IF reply.body # "json" THEN HttpRaise("JSONDecodeError")
    ELSE HttpReturn(reply.body)

\* Line 115.
sleep_sec(attempt) == Min(Pow(2, attempt - 1), BACKOFF_CAP)

HttpGet(reply) == [op |-> "get", reply |-> Some(reply), secs |-> 0]

HttpSleep(secs) == [op |-> "sleep", reply |-> None, secs |-> secs]

InitHttp ==
    /\ pc = "http_get_json"
    /\ \E retries \in 0..MaxRetries :
          http = [retries |-> retries, attempt |-> 1, last_err |-> None,
                  log |-> << >>, result |-> None]
    /\ closes = None /\ rsi_out = None /\ weekly_out = None
    /\ cb_args = None /\ cb_result = None /\ rec_rsi = None /\ rec_lines = None
    /\ creds = None /\ idx = 0 /\ prices = None /\ bounds_by_symbol = None
    /\ rsi_data = None /\ fetch_log = None /\ tg_calls = None /\ exit_code = None

\* Lines 105-117: one turn of the loop.  The request is made; a success
\* returns; any exception is caught, kept in last_err and, unless this was the
\* last attempt, followed by the sleep.
HttpAttempt ==
    /\ pc = "http_get_json"
    /\ http.attempt <= http.retries
    /\ \E reply \in HttpReplies :
        LET o    == HttpTry(reply)
            sent == Append(http.log, HttpGet(reply))
        IN  IF ~o.raised
            THEN /\ http' = [http EXCEPT !.log = sent, !.result = Some(o)]
                 /\ pc' = "returned"
            ELSE /\ http' = [http EXCEPT
                                !.log = IF http.attempt < http.retries
                                        THEN Append(sent,
                                                    HttpSleep(sleep_sec(http.attempt)))
                                        ELSE sent,
                                !.last_err = Some(o.err),
                                !.attempt = http.attempt + 1]
                 /\ pc' = pc
    /\ UNCHANGED <<closes, rsi_out, weekly_out, cb_args, cb_result, rec_rsi,
                   rec_lines, creds, idx, prices, bounds_by_symbol, rsi_data,
                   fetch_log, tg_calls, exit_code>>

\* Line 119: the loop is over without a return.
HttpGiveUp ==
    /\ pc = "http_get_json"
    /\ http.attempt > http.retries
    /\ http' = [http EXCEPT !.result = Some(HttpRaise("RuntimeError"))]
    /\ pc' = "raised"
    /\ UNCHANGED <<closes, rsi_out, weekly_out, cb_args, cb_result, rec_rsi,
                   rec_lines, creds, idx, prices, bounds_by_symbol, rsi_data,
                   fetch_log, tg_calls, exit_code>>

NextHttp == HttpAttempt \/ HttpGiveUp

SpecHttp == InitHttp /\ [][NextHttp]_vars

HttpDone == pc \in {"returned", "raised"}

\* The positions of the log that are requests.
HttpGets == {i \in 1..Len(http.log) : http.log[i].op = "get"}

HttpSucceeded(i) == ~HttpTry(Val(http.log[i].reply)).raised

\* A transient failure: HTTP 429, HTTP 5xx, or an error of the network.
TransientFailure(reply) ==
    \/ reply.kind = "network_error"
    \/ /\ reply.kind = "response"
       /\ \/ Val(reply.status) = 429
          \/ 500 <= Val(reply.status) /\ Val(reply.status) < 600

\* At most `retries` requests are made.
HttpAtMostRetries == Cardinality(HttpGets) <= http.retries

\* A successful response is returned at once: it is the last entry of the log.
HttpFirstSuccessReturns ==
    \A i \in HttpGets :
        HttpSucceeded(i) =>
            /\ i = Len(http.log)
            /\ pc = "returned"
            /\ http.result = Some(HttpReturn(Val(http.log[i].reply).body))

\* A request that is followed by another one had failed transiently.
HttpRetriesOnlyTransient ==
    \A i \in HttpGets :
        (\E j \in HttpGets : i < j) => TransientFailure(Val(http.log[i].reply))

\* A request that is followed by another one had failed, whatever the failure.
HttpRetriesAfterAnyFailure ==
    \A i \in HttpGets : (\E j \in HttpGets : i < j) => ~HttpSucceeded(i)

\* One sleep separates consecutive requests, its length is
\* min(2 ** (attempt - 1), 10), and no sleep follows the last request.
HttpWaitsBetween ==
    /\ \A i \in 1..Len(http.log) :
          IF i \in HttpGets
          THEN i + 1 <= Len(http.log) => http.log[i + 1].op = "sleep"
          ELSE /\ i > 1 /\ http.log[i - 1].op = "get"
               /\ http.log[i].secs = sleep_sec(Cardinality({j \in HttpGets : j < i}))
               /\ http.log[i].secs <= BACKOFF_CAP
               /\ Cardinality({j \in HttpGets : j < i}) < http.retries
    /\ HttpDone /\ Len(http.log) > 0 => http.log[Len(http.log)].op = "get"

\* The call raises exactly when `retries` requests were made and all failed.
HttpRaisesWhenExhausted ==
    HttpDone =>
        /\ http.result # None
        /\ Val(http.result).raised <=>
              /\ Cardinality(HttpGets) = http.retries
              /\ \A i \in HttpGets : ~HttpSucceeded(i)

\* C11: every call of http_get_json makes at most `retries` requests, returns
\* the first successful response without a further request, retries only after
\* a transient failure (HTTP 429, HTTP 5xx or a network error), waits between
\* consecutive attempts and never after the last one, for at most 10 seconds,
\* and raises exactly when all `retries` attempts have failed.
C11_RetriesOnlyWhenTransient ==
    /\ HttpAtMostRetries
    /\ HttpFirstSuccessReturns
    /\ HttpRetriesOnlyTransient
    /\ HttpWaitsBetween
    /\ HttpRaisesWhenExhausted

\* What http_get_json does: the same, except that it retries after every
\* failure of an attempt, a client error or an undecodable body included.
HttpRetriesWhateverTheFailure ==
    /\ HttpAtMostRetries
    /\ HttpFirstSuccessReturns
    /\ HttpRetriesAfterAnyFailure
    /\ HttpWaitsBetween
    /\ HttpRaisesWhenExhausted

\* A call that met HTTP 404, slept and asked again.
HttpRetriedClientError ==
    /\ Len(http.log) >= 3
    /\ http.log[1].op = "get" /\ Val(http.log[1].reply).status = Some(404)
    /\ http.log[2].op = "sleep" /\ http.log[3].op = "get"

\* A call that slept for the full cap, and one that gave up after six requests.
HttpSleptCap ==
    \E i \in 1..Len(http.log) : http.log[i].op = "sleep" /\ http.log[i].secs = BACKOFF_CAP

HttpExhausted == pc = "raised" /\ Cardinality(HttpGets) = MaxRetries

====
